---- MODULE Spec2Model ----
(***************************************************************************)
(* Distributed sample sort (ssort::samplesort, src/sorttest/ssort.hpp).    *)
(*                                                                         *)
(* Every rank runs the same code.  A rank's position (pc) is the MPI       *)
(* collective it is blocked in; one action takes a rank out of a           *)
(* collective, through the local code that follows, and into the next      *)
(* collective.  The contributions a rank hands to a collective are kept in *)
(* net until the receivers pick them up.                                   *)
(*                                                                         *)
(* C arrays are functions over 0..n-1; iterator ranges [begin, end) are    *)
(* sequences (position q of the range is element q+1 of the sequence).     *)
(***************************************************************************)
EXTENDS Integers, Sequences, FiniteSets, TLC

VARIABLES
    numprocs,           \* number of ranks of the communicator
    input,              \* input[k]: rank k's segment when samplesort is called
    data,               \* data[k]: the caller's buffer [begin, end) of rank k
    pc,                 \* pc[k]: where rank k is
    sample,             \* sample[k]: get_splitters' sample array (later the splitters)
    all_samples,        \* all_samples[k]: the gathered samples (rank 0 only)
    send_split_counts,  \* get_buckets' send_split_counts of each rank
    recv_split_counts,  \* get_buckets' recv_split_counts of each rank
    bucket_size,        \* samplesort's bucket_size of each rank
    bucket_elems,       \* samplesort's bucket_elems of each rank
    all_sizes,          \* redistribute's all_sizes of each rank
    send_counts,        \* redistribute's send_counts of each rank
    recv_counts,        \* redistribute's recv_counts of each rank
    net,                \* contributions handed to each collective, by rank
    issued,             \* issued[k]: the collectives rank k has called, in order
    allocd,             \* allocd[k]: the buffers rank k has allocated, in order
    freed,              \* freed[k]: the buffers rank k has released, in order
    oob,                \* oob[k]: rank k read a sample outside its segment
    shift,              \* counts are in units of 2^shift elements
    ndebug,             \* the build defines NDEBUG: assert does nothing
    io                  \* arguments and result of a call of interval_overlap

vars == <<numprocs, input, data, pc, sample, all_samples, send_split_counts,
          recv_split_counts, bucket_size, bucket_elems, all_sizes, send_counts,
          recv_counts, net, issued, allocd, freed, oob, shift, ndebug, io>>

(* Bounds of the model *)

MaxP == 3       \* ranks
MaxN == 3       \* elements over all ranks
MaxVal == 1     \* element values are 0..MaxVal
MaxCoord == 3   \* interval end points 0..MaxCoord tried for interval_overlap
CapBits == 4    \* bits of an int left when counts are in large units

Ranks == 0 .. numprocs - 1
Vals == 0 .. MaxVal

\* the value of a buffer position nothing has been written to
Uninit == -1

(* Machine arithmetic *)

\* the largest int: MPI counts and displacements are ints
INT_MAX == 2147483647

\* the width of int and unsigned
IntBits == 32

\* the unit that leaves CapBits bits of an int
LargeUnit == IntBits - CapBits

\* Counts are kept in units of 2^shift elements (shift = 0: in elements).
\* The 32-bit arithmetic of the code on multiples of 2^shift is arithmetic on
\* 32 - shift bits in these units.
IntMaxUnits == INT_MAX \div (2 ^ shift)

\* conversion to unsigned: modulo 2^32 (in units: modulo 2 * (IntMaxUnits + 1))
ToUnsigned(x) ==
    IF 0 <= x /\ x <= IntMaxUnits THEN x
    ELSE x % (2 * (IntMaxUnits + 1))

\* conversion to int: the two's complement reading of the low 32 bits
ToInt(x) ==
    IF - IntMaxUnits - 1 <= x /\ x <= IntMaxUnits THEN x
    ELSE LET u == x % (2 * (IntMaxUnits + 1))
         IN  IF u > IntMaxUnits THEN u - 2 * (IntMaxUnits + 1) ELSE u

Min(a, b) == IF a <= b THEN a ELSE b
Max(a, b) == IF a >= b THEN a ELSE b

RECURSIVE SumTo(_, _)
\* arr[0] + ... + arr[n-1]
SumTo(arr, n) == IF n <= 0 THEN 0 ELSE SumTo(arr, n - 1) + arr[n - 1]

(* The comparator and the library algorithms the code calls *)

\* the _Compare argument: std::less on the element type
comp(a, b) == a < b

\* std_sort with the call left out
std_sort_none(s) == s

\* std::sort(first, last, comp)
std_sort(s) == SortSeq(s, comp)

RECURSIVE lower_bound_upper(_, _, _, _)
\* lower_bound with the comparison turned round (it is std::upper_bound)
lower_bound_upper(s, first, len, val) ==
    IF len <= 0 THEN first
    ELSE LET half == len \div 2
             mid  == first + half
         IN  IF ~comp(val, s[mid + 1])
             THEN lower_bound_upper(s, mid + 1, len - half - 1, val)
             ELSE lower_bound_upper(s, first, half, val)

RECURSIVE lower_bound(_, _, _, _)
\* std::lower_bound over positions [first, first + len) of s: the first
\* position whose element is not less than val (binary search)
lower_bound(s, first, len, val) ==
    IF len <= 0 THEN first
    ELSE LET half == len \div 2
             mid  == first + half
         IN  IF comp(s[mid + 1], val)
             THEN lower_bound(s, mid + 1, len - half - 1, val)
             ELSE lower_bound(s, first, half, val)

\* exclusive_sum with each entry counted in its own sum (the inclusive sum)
exclusive_sum_inclusive(arr, n) ==
    [i \in 0 .. n - 1 |-> ToInt(SumTo(arr, i + 1))]

RECURSIVE exclusive_sum(_, _)
\* sums[0] = 0, sums[i] = sums[i-1] + arr[i-1], in int
exclusive_sum(arr, n) ==
    IF n <= 1 THEN [i \in 0 .. n - 1 |-> 0]
    ELSE LET prev == exclusive_sum(arr, n - 1)
         IN  [i \in 0 .. n - 1 |->
                 IF i < n - 1 THEN prev[i]
                 ELSE ToInt(prev[n - 2] + arr[n - 2])]

\* interval_overlap without the exchange of the two ranges
interval_overlap_noswap(l1, r1, l2, r2) ==
    IF r1 <= l2 THEN 0
    ELSE IF r1 >= r2 THEN ToUnsigned(r2 - l2)
    ELSE ToUnsigned(r1 - l2)

\* the length of the intersection of [l1, r1) and [l2, r2), in unsigned
interval_overlap(l1, r1, l2, r2) ==
    LET swap == l2 < l1
        a1 == IF swap THEN l2 ELSE l1
        b1 == IF swap THEN r2 ELSE r1
        a2 == IF swap THEN l1 ELSE l2
        b2 == IF swap THEN r1 ELSE r2
    IN  IF b1 <= a2 THEN 0
        ELSE IF b1 >= b2 THEN ToUnsigned(b2 - a2)
        ELSE ToUnsigned(b1 - a2)


(* The MPI collectives (MPI standard semantics of the calls in ssort.hpp) *)

\* count elements of buf from position displ on; a position outside buf
\* reads as Uninit
Slice(buf, displ, count) ==
    [j \in 1 .. count |->
        IF displ + j \in 1 .. Len(buf) THEN buf[displ + j] ELSE Uninit]

\* what MPI_Alltoallv takes from a rank's send buffer: for every peer i,
\* sendcounts[i] elements from position sdispls[i]
Alltoallv_send(sendbuf, sendcounts, sdispls) ==
    [i \in Ranks |-> Slice(sendbuf, sdispls[i], sendcounts[i])]

\* the block rank i has handed to the collective for rank k (empty while
\* rank i has handed over nothing)
BlockFor(sent, i, k) == IF i \in DOMAIN sent THEN sent[i][k] ELSE <<>>

\* MPI_Alltoallv fails (MPI_ERR_TRUNCATE) when a peer sends more than the
\* receive count
Truncated(sent, k, recvcounts) ==
    \E i \in Ranks : Len(BlockFor(sent, i, k)) > recvcounts[i]

\* the receive buffer of rank k after MPI_Alltoallv: the block of peer i is
\* written from position rdispls[i] on; other positions keep their value. A
\* write past the end of recvbuf lands in the memory behind it, which the
\* result shows as extra positions.
Alltoallv_recv(recvbuf, sent, k, rdispls) ==
    LET extent(i) == IF Len(BlockFor(sent, i, k)) = 0 THEN 0
                     ELSE rdispls[i] + Len(BlockFor(sent, i, k))
        RECURSIVE MaxExtent(_)
        MaxExtent(n) == IF n <= 0 THEN 0
                        ELSE Max(MaxExtent(n - 1), extent(n - 1))
        newlen == Max(Len(recvbuf), MaxExtent(numprocs))
        writers(q) == {i \in Ranks : rdispls[i] < q /\ q <= extent(i)}
        last(S) == CHOOSE i \in S : \A j \in S : j <= i
    IN  [q \in 1 .. newlen |->
            IF writers(q) # {}
            THEN BlockFor(sent, last(writers(q)), k)[q - rdispls[last(writers(q))]]
            ELSE IF q <= Len(recvbuf) THEN recvbuf[q] ELSE Uninit]

\* Awaited when the call returns without waiting for any peer
Awaited_none(recvcounts) == {}

\* the ranks whose block rank k has to wait for
Awaited(recvcounts) == {i \in Ranks : recvcounts[i] > 0}

(* get_splitters *)

\* s_pos advancing by jump only, the leftover left out
s_pos_noleftover(size, sample_size, i) ==
    (i + 1) * (size \div (sample_size + 1))

RECURSIVE s_pos(_, _, _)
\* the iterator s_pos (as a distance from begin) after iteration i of the
\* sampling loop
s_pos(size, sample_size, i) ==
    LET jump == size \div (sample_size + 1)
        leftover == size % (sample_size + 1)
        before == IF i = 0 THEN 0 ELSE s_pos(size, sample_size, i - 1)
    IN  before + jump + (IF i < leftover THEN 1 ELSE 0)

\* sample_in_segment with begin < s_pos-1 for begin <= s_pos-1
sample_in_segment_strict(size, sample_size, i) ==
    /\ 0 < s_pos(size, sample_size, i) - 1
    /\ s_pos(size, sample_size, i) - 1 < size

\* assert(begin <= s_pos-1 && s_pos-1 < end)
sample_in_segment(size, sample_size, i) ==
    /\ 0 <= s_pos(size, sample_size, i) - 1
    /\ s_pos(size, sample_size, i) - 1 < size

\* the p-1 local samples of a sorted segment; garbage is what a read
\* outside the segment returns
local_sample(seg, sample_size, garbage) ==
    [i \in 0 .. sample_size - 1 |->
        IF sample_in_segment(Len(seg), sample_size, i)
        THEN seg[s_pos(Len(seg), sample_size, i)]
        ELSE garbage]

\* the receive buffer of MPI_Gather on the root: the blocks in rank order
gathered(sent, n, sample_size) ==
    [j \in 0 .. n * sample_size - 1 |->
        sent[j \div sample_size][j % sample_size]]

\* a C array as a sequence, and back
ArrSeq(arr, n) == [j \in 1 .. n |-> arr[j - 1]]
SeqArr(s) == [j \in 0 .. Len(s) - 1 |-> s[j + 1]]

\* the iterator as_pos after iteration i of the splitter loop
as_pos(sample_size, i) == (i + 1) * sample_size

\* assert(0 <= as_pos-1 && as_pos-1 < numprocs*sample_size)
splitter_in_samples(n, sample_size, i) ==
    /\ 0 <= as_pos(sample_size, i) - 1
    /\ as_pos(sample_size, i) - 1 < n * sample_size

\* global_splitters taking the first p-1 of the sorted samples
global_splitters_first(sorted_samples, sample_size) ==
    [i \in 0 .. sample_size - 1 |-> sorted_samples[i]]

\* the p-1 global splitters rank 0 takes from the sorted samples
global_splitters(sorted_samples, sample_size) ==
    [i \in 0 .. sample_size - 1 |-> sorted_samples[as_pos(sample_size, i) - 1]]

(* get_buckets *)

RECURSIVE bucket_bound(_, _, _)
\* s_pos (as a distance from begin) after iteration i of the splitting loop
bucket_bound(seg, splitters, i) ==
    LET from == IF i = 0 THEN 0 ELSE bucket_bound(seg, splitters, i - 1)
    IN  lower_bound(seg, from, Len(seg) - from, splitters[i])

\* split_counts with the last bucket one element short
split_counts_short(seg, splitters, n) ==
    [i \in 0 .. n - 1 |->
        LET from == IF i = 0 THEN 0 ELSE bucket_bound(seg, splitters, i - 1)
        IN  IF i < n - 1
            THEN ToInt(bucket_bound(seg, splitters, i) - from)
            ELSE ToInt(Len(seg) - from - 1)]

\* split_counts with each distance taken from begin instead of s_pos
split_counts_from_begin(seg, splitters, n) ==
    [i \in 0 .. n - 1 |->
        LET from == IF i = 0 THEN 0 ELSE bucket_bound(seg, splitters, i - 1)
        IN  IF i < n - 1
            THEN ToInt(bucket_bound(seg, splitters, i))
            ELSE ToInt(Len(seg) - from)]

\* send_split_counts: how many elements of seg go to each rank
split_counts(seg, splitters, n) ==
    [i \in 0 .. n - 1 |->
        LET from == IF i = 0 THEN 0 ELSE bucket_bound(seg, splitters, i - 1)
        IN  IF i < n - 1
            THEN ToInt(bucket_bound(seg, splitters, i) - from)
            ELSE ToInt(Len(seg) - from)]

\* received_size without the last rank's block
received_size_short(recvcounts, n) == exclusive_sum(recvcounts, n)[n - 1]

\* *bucket_size_ptr = recv_displacements[numprocs-1] + recv_split_counts[numprocs-1]
received_size(recvcounts, n) ==
    ToInt(exclusive_sum(recvcounts, n)[n - 1] + recvcounts[n - 1])

(* redistribute *)

\* global_my_orig_begin / global_my_bucket_begin: the sum of the entries
\* all_sizes[2*i + which] for i < k
global_begin(sizes, k, which) ==
    ToInt(SumTo([i \in 0 .. k - 1 |-> sizes[2 * i + which]], k))

\* curr_orig_end, curr_bucket_end, global_my_orig_end, global_my_bucket_end
global_end(sizes, k, which) ==
    ToInt(global_begin(sizes, k, which) + sizes[2 * k + which])

\* redistribute_send_count with my original range for my bucket range
redistribute_send_count_orig(sizes, myid, i) ==
    ToInt(interval_overlap(
        ToUnsigned(global_begin(sizes, i, 0)),
        ToUnsigned(global_end(sizes, i, 0)),
        ToUnsigned(global_begin(sizes, myid, 0)),
        ToUnsigned(global_end(sizes, myid, 0))))

\* send_counts[i]: overlap of rank i's original range with my bucket range
redistribute_send_count(sizes, myid, i) ==
    ToInt(interval_overlap(
        ToUnsigned(global_begin(sizes, i, 0)),
        ToUnsigned(global_end(sizes, i, 0)),
        ToUnsigned(global_begin(sizes, myid, 1)),
        ToUnsigned(global_end(sizes, myid, 1))))

\* redistribute_recv_count with my bucket range for my original range
redistribute_recv_count_bucket(sizes, myid, i) ==
    ToInt(interval_overlap(
        ToUnsigned(global_begin(sizes, i, 1)),
        ToUnsigned(global_end(sizes, i, 1)),
        ToUnsigned(global_begin(sizes, myid, 1)),
        ToUnsigned(global_end(sizes, myid, 1))))

\* redistribute_recv_count computed as the send count is (my bucket range
\* with rank i's original range)
redistribute_recv_count_as_send(sizes, myid, i) ==
    ToInt(interval_overlap(
        ToUnsigned(global_begin(sizes, i, 0)),
        ToUnsigned(global_end(sizes, i, 0)),
        ToUnsigned(global_begin(sizes, myid, 1)),
        ToUnsigned(global_end(sizes, myid, 1))))

\* recv_counts[i]: overlap of rank i's bucket range with my original range
redistribute_recv_count(sizes, myid, i) ==
    ToInt(interval_overlap(
        ToUnsigned(global_begin(sizes, i, 1)),
        ToUnsigned(global_end(sizes, i, 1)),
        ToUnsigned(global_begin(sizes, myid, 0)),
        ToUnsigned(global_end(sizes, myid, 0))))

(* The state when samplesort is called on every rank *)

\* the segments of P ranks of sizes sz[0], ..., sz[P-1] holding flat
SegmentsOf(P, sz, flat) ==
    [k \in 0 .. P - 1 |-> SubSeq(flat, SumTo(sz, k) + 1, SumTo(sz, k + 1))]

\* every distribution of at most MaxN values over P ranks
BoundedInputs(P) ==
    UNION { { SegmentsOf(P, sz, flat) : flat \in [1 .. SumTo(sz, P) -> Vals] } :
            sz \in {f \in [0 .. P - 1 -> 0 .. MaxN] : SumTo(f, P) <= MaxN} }

\* 4 ranks holding 3 elements each of a permutation of 0..11
ScenarioInputs ==
    { [k \in 0 .. 3 |-> [j \in 1 .. 3 |-> (a * (3 * k + j - 1) + b) % 12]] :
      a \in {1, 5, 7, 11}, b \in 0 .. 11 }

\* 3 ranks holding 2, 1 and 3 elements, values 0..3 with repetitions
UnevenInputs ==
    { SegmentsOf(3, [i \in 0 .. 2 |-> <<2, 1, 3>>[i + 1]], [j \in 1 .. 6 |-> (a * j + b) % 4]) :
      a \in 0 .. 3, b \in 0 .. 3 }

\* every input of 2 ranks holding 3 and 2 elements, and of 3 ranks holding
\* 2, 1 and 2 elements, values 0..2
FilledInputs(P) ==
    LET sz == IF P = 2 THEN [i \in 0 .. 1 |-> <<3, 2>>[i + 1]]
              ELSE [i \in 0 .. 2 |-> <<2, 1, 2>>[i + 1]]
    IN  { SegmentsOf(P, sz, flat) : flat \in [1 .. 5 -> 0 .. 2] }

NoCall == [l1 |-> 0, r1 |-> 0, l2 |-> 0, r2 |-> 0, called |-> FALSE,
           result |-> 0, swapped |-> 0]

NoNet == [gather |-> <<>>, bcast |-> <<>>, alltoall |-> <<>>,
          alltoallv_bucket |-> <<>>, allgather |-> <<>>,
          alltoallv_redist |-> <<>>]

InitRanks ==
    /\ data = input
    /\ pc = [k \in Ranks |-> "start"]
    /\ sample = [k \in Ranks |-> <<>>]
    /\ all_samples = [k \in Ranks |-> <<>>]
    /\ send_split_counts = [k \in Ranks |-> <<>>]
    /\ recv_split_counts = [k \in Ranks |-> <<>>]
    /\ bucket_size = [k \in Ranks |-> 0]
    /\ bucket_elems = [k \in Ranks |-> <<>>]
    /\ all_sizes = [k \in Ranks |-> <<>>]
    /\ send_counts = [k \in Ranks |-> <<>>]
    /\ recv_counts = [k \in Ranks |-> <<>>]
    /\ net = NoNet
    /\ issued = [k \in Ranks |-> <<>>]
    /\ allocd = [k \in Ranks |-> <<>>]
    /\ freed = [k \in Ranks |-> <<>>]
    /\ oob = [k \in Ranks |-> FALSE]

\* the inputs tried
InitInputs ==
    \/ /\ numprocs \in 1 .. MaxP
       /\ input \in BoundedInputs(numprocs)
    \/ /\ numprocs = 4
       /\ input \in ScenarioInputs
    \/ /\ numprocs = 3
       /\ input \in UnevenInputs
    \/ /\ numprocs \in {2, 3}
       /\ input \in FilledInputs(numprocs)

\* samplesort is called on every rank; assert is live (ssort.hpp includes
\* assert.h and does not define NDEBUG)
Init ==
    /\ InitInputs
    /\ InitRanks
    /\ shift = 0
    /\ ndebug = FALSE
    /\ io = NoCall

(* samplesort, one action per stretch of code between two collectives *)

\* get_buckets_deletes without delete[] splitters
get_buckets_deletes_nosplitters ==
    <<"send_split_counts", "recv_split_counts",
      "send_displacements", "recv_displacements">>

\* the delete[] statements at the end of get_buckets (splitters is the
\* sample array get_splitters returned)
get_buckets_deletes ==
    <<"sample", "send_split_counts", "recv_split_counts",
      "send_displacements", "recv_displacements">>

\* the delete[] statements at the end of redistribute
redistribute_deletes ==
    <<"all_sizes", "send_counts", "recv_counts",
      "send_displacements", "recv_displacements">>

\* the heap arrays a call allocates
Buffers ==
    {"sample", "all_samples", "send_split_counts", "recv_split_counts",
     "send_displacements", "recv_displacements", "bucket_elems", "all_sizes",
     "send_counts", "recv_counts"}

\* the heap arrays the code of rank k reads or writes while it is at pc[k]:
\* the arguments of the collective it is in and what the code up to the
\* next collective touches
InUse(k) ==
    CASE pc[k] = "Gather" ->
             IF k = 0 THEN {"sample", "all_samples"} ELSE {"sample"}
      [] pc[k] = "Bcast" -> {"sample"}
      [] pc[k] = "Alltoall" -> {"send_split_counts", "recv_split_counts"}
      [] pc[k] = "Alltoallv_bucket" ->
             {"send_split_counts", "send_displacements", "recv_split_counts",
              "recv_displacements", "bucket_elems"}
      [] pc[k] = "Allgather" -> {"all_sizes", "bucket_elems"}
      [] pc[k] = "Alltoallv_redist" ->
             {"send_counts", "send_displacements", "recv_counts",
              "recv_displacements", "bucket_elems"}
      [] OTHER -> {}

\* the early return taken for no rank at all only
single_rank_none(n) == n <= 0

\* if (numprocs <= 1) return;
single_rank(n) == n <= 1

\* what a read of *(begin - 1) can return
GarbageVals == 0 .. MaxVal + 1

\* samplesort is called: the local sort; with more than one rank, the
\* sampling of get_splitters up to MPI_Gather
samplesort_begin(k) ==
    /\ pc[k] = "start"
    /\ LET seg == std_sort(data[k])
           sample_size == numprocs - 1
           ok == \A i \in 0 .. sample_size - 1 :
                     sample_in_segment(Len(seg), sample_size, i)
       IN  /\ data' = [data EXCEPT ![k] = seg]
           /\ IF single_rank(numprocs)
              THEN /\ pc' = [pc EXCEPT ![k] = "done"]
                   /\ UNCHANGED <<sample, net, issued, allocd, oob>>
              ELSE \/ /\ ok
                      /\ sample' = [sample EXCEPT ![k] = local_sample(seg, sample_size, Uninit)]
                      /\ net' = [net EXCEPT !.gather = @ @@ (k :> sample'[k])]
                      /\ pc' = [pc EXCEPT ![k] = "Gather"]
                      /\ issued' = [issued EXCEPT ![k] = Append(@, "Gather")]
                      /\ allocd' = [allocd EXCEPT ![k] =
                             IF k = 0 THEN @ \o <<"sample", "all_samples">>
                             ELSE Append(@, "sample")]
                      /\ oob' = oob
                   \/ \* the assertion fails
                      /\ ~ok
                      /\ ~ndebug
                      /\ pc' = [pc EXCEPT ![k] = "aborted"]
                      /\ allocd' = [allocd EXCEPT ![k] = Append(@, "sample")]
                      /\ UNCHANGED <<sample, net, issued, oob>>
                   \/ \* built with NDEBUG: the sample is read outside the segment
                      /\ ~ok
                      /\ ndebug
                      /\ \E g \in GarbageVals :
                            sample' = [sample EXCEPT ![k] = local_sample(seg, sample_size, g)]
                      /\ net' = [net EXCEPT !.gather = @ @@ (k :> sample'[k])]
                      /\ pc' = [pc EXCEPT ![k] = "Gather"]
                      /\ issued' = [issued EXCEPT ![k] = Append(@, "Gather")]
                      /\ allocd' = [allocd EXCEPT ![k] =
                             IF k = 0 THEN @ \o <<"sample", "all_samples">>
                             ELSE Append(@, "sample")]
                      /\ oob' = [oob EXCEPT ![k] = TRUE]
    /\ UNCHANGED <<ndebug, shift, numprocs, input, all_samples, send_split_counts,
                   recv_split_counts, bucket_size, bucket_elems, all_sizes,
                   send_counts, recv_counts, freed, io>>

\* a rank other than 0 returns from MPI_Gather (its block is handed over)
\* and calls MPI_Bcast
gather_return(k) ==
    /\ pc[k] = "Gather"
    /\ k # 0
    /\ pc' = [pc EXCEPT ![k] = "Bcast"]
    /\ issued' = [issued EXCEPT ![k] = Append(@, "Bcast")]
    /\ UNCHANGED <<ndebug, shift, numprocs, input, data, sample, all_samples, send_split_counts,
                   recv_split_counts, bucket_size, bucket_elems, all_sizes,
                   send_counts, recv_counts, net, allocd, freed, oob, io>>

\* rank 0 returns from MPI_Gather with every rank's samples, sorts them,
\* takes the splitters and calls MPI_Bcast
root_splitters ==
    /\ pc[0] = "Gather"
    /\ DOMAIN net.gather = Ranks
    /\ LET sample_size == numprocs - 1
           n == numprocs * sample_size
           sorted == SeqArr(std_sort(ArrSeq(gathered(net.gather, numprocs, sample_size), n)))
       IN  /\ all_samples' = [all_samples EXCEPT ![0] = sorted]
           /\ IF ndebug \/ \A i \in 0 .. sample_size - 1 :
                               splitter_in_samples(numprocs, sample_size, i)
              THEN /\ sample' = [sample EXCEPT ![0] = global_splitters(sorted, sample_size)]
                   /\ net' = [net EXCEPT !.bcast = (0 :> sample'[0])]
                   /\ pc' = [pc EXCEPT ![0] = "Bcast"]
                   /\ issued' = [issued EXCEPT ![0] = Append(@, "Bcast")]
              ELSE /\ pc' = [pc EXCEPT ![0] = "aborted"]
                   /\ UNCHANGED <<sample, net, issued>>
    /\ UNCHANGED <<ndebug, shift, numprocs, input, data, send_split_counts, recv_split_counts,
                   bucket_size, bucket_elems, all_sizes, send_counts,
                   recv_counts, allocd, freed, oob, io>>

\* a rank returns from MPI_Bcast with the splitters, leaves get_splitters,
\* splits its segment into buckets and calls MPI_Alltoall with the bucket sizes
get_buckets_split(k) ==
    /\ pc[k] = "Bcast"
    /\ 0 \in DOMAIN net.bcast
    /\ sample' = [sample EXCEPT ![k] = net.bcast[0]]
    /\ send_split_counts' = [send_split_counts EXCEPT ![k] =
           split_counts(data[k], sample'[k], numprocs)]
    /\ net' = [net EXCEPT !.alltoall = @ @@ (k :> send_split_counts'[k])]
    /\ pc' = [pc EXCEPT ![k] = "Alltoall"]
    /\ issued' = [issued EXCEPT ![k] = Append(@, "Alltoall")]
    /\ allocd' = [allocd EXCEPT ![k] = @ \o <<"send_split_counts", "recv_split_counts">>]
    /\ freed' = [freed EXCEPT ![k] = IF k = 0 THEN Append(@, "all_samples") ELSE @]
    /\ UNCHANGED <<ndebug, shift, numprocs, input, data, all_samples, recv_split_counts,
                   bucket_size, bucket_elems, all_sizes, send_counts,
                   recv_counts, oob, io>>

\* a rank returns from MPI_Alltoall with the sizes of the buckets it will
\* receive, allocates bucket_elems and calls MPI_Alltoallv with its buckets.
\* new value_type[*bucket_size_ptr] with a negative size throws, and nothing
\* catches it.
get_buckets_exchange(k) ==
    /\ pc[k] = "Alltoall"
    /\ DOMAIN net.alltoall = Ranks
    /\ recv_split_counts' = [recv_split_counts EXCEPT ![k] =
           [i \in Ranks |-> net.alltoall[i][k]]]
    /\ bucket_size' = [bucket_size EXCEPT ![k] =
           received_size(recv_split_counts'[k], numprocs)]
    /\ IF bucket_size'[k] < 0
       THEN /\ pc' = [pc EXCEPT ![k] = "aborted"]
            /\ allocd' = [allocd EXCEPT ![k] =
                   @ \o <<"send_displacements", "recv_displacements">>]
            /\ UNCHANGED <<bucket_elems, net, issued>>
       ELSE /\ bucket_elems' = [bucket_elems EXCEPT ![k] =
                   [q \in 1 .. bucket_size'[k] |-> Uninit]]
            /\ net' = [net EXCEPT !.alltoallv_bucket = @ @@
                   (k :> Alltoallv_send(data[k], send_split_counts[k],
                                        exclusive_sum(send_split_counts[k], numprocs)))]
            /\ pc' = [pc EXCEPT ![k] = "Alltoallv_bucket"]
            /\ issued' = [issued EXCEPT ![k] = Append(@, "Alltoallv")]
            /\ allocd' = [allocd EXCEPT ![k] =
                   @ \o <<"send_displacements", "recv_displacements", "bucket_elems">>]
    /\ UNCHANGED <<ndebug, shift, numprocs, input, data, sample, all_samples,
                   send_split_counts, all_sizes, send_counts, recv_counts,
                   freed, oob, io>>

\* a rank returns from MPI_Alltoallv with its bucket, leaves get_buckets,
\* sorts the bucket, enters redistribute and calls MPI_Allgather
redistribute_begin(k) ==
    /\ pc[k] = "Alltoallv_bucket"
    /\ Awaited(recv_split_counts[k]) \subseteq DOMAIN net.alltoallv_bucket
    /\ IF Truncated(net.alltoallv_bucket, k, recv_split_counts[k])
       THEN /\ pc' = [pc EXCEPT ![k] = "aborted"]
            /\ UNCHANGED <<bucket_elems, net, issued, allocd, freed>>
       ELSE /\ bucket_elems' = [bucket_elems EXCEPT ![k] =
                   std_sort(Alltoallv_recv(bucket_elems[k], net.alltoallv_bucket, k,
                                exclusive_sum(recv_split_counts[k], numprocs)))]
            /\ net' = [net EXCEPT !.allgather = @ @@
                   (k :> <<ToInt(Len(data[k])), ToInt(bucket_size[k])>>)]
            /\ pc' = [pc EXCEPT ![k] = "Allgather"]
            /\ issued' = [issued EXCEPT ![k] = Append(@, "Allgather")]
            /\ freed' = [freed EXCEPT ![k] = @ \o get_buckets_deletes]
            /\ allocd' = [allocd EXCEPT ![k] = Append(@, "all_sizes")]
    /\ UNCHANGED <<ndebug, shift, numprocs, input, data, sample, all_samples, send_split_counts,
                   recv_split_counts, bucket_size, all_sizes, send_counts,
                   recv_counts, oob, io>>

\* a rank returns from MPI_Allgather with every rank's (original size,
\* bucket size), computes the counts and calls MPI_Alltoallv with its bucket
redistribute_counts(k) ==
    /\ pc[k] = "Allgather"
    /\ DOMAIN net.allgather = Ranks
    /\ all_sizes' = [all_sizes EXCEPT ![k] =
           [j \in 0 .. 2 * numprocs - 1 |-> net.allgather[j \div 2][(j % 2) + 1]]]
    /\ send_counts' = [send_counts EXCEPT ![k] =
           [i \in Ranks |-> redistribute_send_count(all_sizes'[k], k, i)]]
    /\ recv_counts' = [recv_counts EXCEPT ![k] =
           [i \in Ranks |-> redistribute_recv_count(all_sizes'[k], k, i)]]
    /\ net' = [net EXCEPT !.alltoallv_redist = @ @@
           (k :> Alltoallv_send(bucket_elems[k], send_counts'[k],
                                exclusive_sum(send_counts'[k], numprocs)))]
    /\ pc' = [pc EXCEPT ![k] = "Alltoallv_redist"]
    /\ issued' = [issued EXCEPT ![k] = Append(@, "Alltoallv")]
    /\ allocd' = [allocd EXCEPT ![k] =
           @ \o <<"send_counts", "recv_counts", "send_displacements",
                  "recv_displacements">>]
    /\ UNCHANGED <<ndebug, shift, numprocs, input, data, sample, all_samples, send_split_counts,
                   recv_split_counts, bucket_size, bucket_elems, freed, oob, io>>

\* a rank returns from MPI_Alltoallv with its final slice in the caller's
\* buffer, leaves redistribute, releases the bucket and returns
samplesort_end(k) ==
    /\ pc[k] = "Alltoallv_redist"
    /\ Awaited(recv_counts[k]) \subseteq DOMAIN net.alltoallv_redist
    /\ IF Truncated(net.alltoallv_redist, k, recv_counts[k])
       THEN /\ pc' = [pc EXCEPT ![k] = "aborted"]
            /\ UNCHANGED <<data, freed>>
       ELSE /\ data' = [data EXCEPT ![k] =
                   Alltoallv_recv(data[k], net.alltoallv_redist, k,
                                  exclusive_sum(recv_counts[k], numprocs))]
            /\ pc' = [pc EXCEPT ![k] = "done"]
            /\ freed' = [freed EXCEPT ![k] =
                   @ \o redistribute_deletes \o <<"bucket_elems">>]
    /\ UNCHANGED <<ndebug, shift, numprocs, input, sample, all_samples, send_split_counts,
                   recv_split_counts, bucket_size, bucket_elems, all_sizes,
                   send_counts, recv_counts, net, issued, allocd, oob, io>>

Next ==
    \/ \E k \in Ranks : samplesort_begin(k)
    \/ \E k \in Ranks : gather_return(k)
    \/ root_splitters
    \/ \E k \in Ranks : get_buckets_split(k)
    \/ \E k \in Ranks : get_buckets_exchange(k)
    \/ \E k \in Ranks : redistribute_begin(k)
    \/ \E k \in Ranks : redistribute_counts(k)
    \/ \E k \in Ranks : samplesort_end(k)

Spec == Init /\ [][Next]_vars

\* the same program built with NDEBUG: the assertions are compiled out, and
\* a sample taken from an empty segment is a read outside the segment
InitNdebug ==
    /\ InitInputs
    /\ InitRanks
    /\ shift = 0
    /\ ndebug = TRUE
    /\ io = NoCall

SpecNdebug == InitNdebug /\ [][Next]_vars

(* Notions the properties are stated in *)

RECURSIVE ConcatTo(_, _)
\* the segments f[0], ..., f[n-1] one after the other
ConcatTo(f, n) == IF n <= 0 THEN <<>> ELSE ConcatTo(f, n - 1) \o f[n - 1]

\* non-decreasing under the comparator
IsSorted(s) == \A q \in 1 .. Len(s) - 1 : ~comp(s[q + 1], s[q])

Occurrences(s, v) == Cardinality({q \in 1 .. Len(s) : s[q] = v})

\* the same elements, each as often
SameElements(s, t) ==
    /\ Len(s) = Len(t)
    /\ \A q \in 1 .. Len(s) : Occurrences(s, s[q]) = Occurrences(t, s[q])

\* the number of elements of s less than s[q], or equal to it and before it:
\* the position (from 0) of s[q] in the sorted order of s
RankIn(s, q) ==
    Cardinality({r \in 1 .. Len(s) : s[r] < s[q] \/ (s[r] = s[q] /\ r < q)})

\* the element at position q (from 1) of the sorted order of s
SortedAt(s, q) == s[CHOOSE r \in 1 .. Len(s) : RankIn(s, r) = q - 1]

Stage(k) ==
    CASE pc[k] = "start" -> 0
      [] pc[k] = "Gather" -> 1
      [] pc[k] = "Bcast" -> 2
      [] pc[k] = "Alltoall" -> 3
      [] pc[k] = "Alltoallv_bucket" -> 4
      [] pc[k] = "Allgather" -> 5
      [] pc[k] = "Alltoallv_redist" -> 6
      [] pc[k] = "done" -> 7
      [] OTHER -> -1

AllDone == \A k \in Ranks : pc[k] = "done"

\* the sum of the original sizes of the ranks below k
OrigOffset(k) == SumTo([i \in Ranks |-> Len(input[i])], k)

AllInput == ConcatTo(input, numprocs)

(* C1 *)

\* C1 (total order): once samplesort has returned on every rank, the
\* segments of all ranks, concatenated in rank order, are non-decreasing
\* under the comparator.
C1_TotalOrder == AllDone => IsSorted(ConcatTo(data, numprocs))

\* every rank has returned from a call with several ranks on an input that
\* was not sorted, neither within each rank nor across ranks
C1_Witness ==
    /\ AllDone
    /\ numprocs >= 3
    /\ \E k \in Ranks : ~IsSorted(input[k])
    /\ \E k \in Ranks : Len(input[k]) # Len(input[0])
    /\ \E k \in Ranks : bucket_size[k] # Len(input[k])

(* C2 *)

\* C2 (count preservation): when samplesort has returned on rank k, the
\* segment of k has as many elements as before the call, and (with several
\* ranks) the redistribution has delivered exactly that many elements into it.
C2_CountPreserved ==
    \A k \in Ranks :
        pc[k] = "done" =>
            /\ Len(data[k]) = Len(input[k])
            /\ numprocs >= 2 =>
                   SumTo(recv_counts[k], numprocs) = Len(input[k])

\* a rank has returned whose bucket in the exchange was larger than its
\* segment, and another whose bucket was smaller
C2_Witness ==
    /\ \E k \in Ranks : pc[k] = "done" /\ bucket_size[k] > Len(input[k])
    /\ \E k \in Ranks : pc[k] = "done" /\ bucket_size[k] < Len(input[k])

(* C3 *)

\* C3 (complete sorted slices): once samplesort has returned on every rank,
\* the concatenation of the segments holds the elements of the input, each
\* as often, and position q of rank k's segment holds the element at
\* position OrigOffset(k) + q of the sorted input.
C3_SortedSlices ==
    AllDone =>
        /\ SameElements(ConcatTo(data, numprocs), AllInput)
        /\ \A k \in Ranks :
               /\ Len(data[k]) = Len(input[k])
               /\ \A q \in 1 .. Len(data[k]) :
                      data[k][q] = SortedAt(AllInput, OrigOffset(k) + q)

\* the instance: 4 ranks of 3 elements holding a permutation of 0..11 that
\* is not the sorted one end with rank k holding 3k, 3k+1, 3k+2
C3_Witness ==
    /\ AllDone
    /\ numprocs = 4
    /\ \A k \in Ranks : Len(input[k]) = 3
    /\ \A v \in 0 .. 11 : Occurrences(AllInput, v) = 1
    /\ ~IsSorted(AllInput)
    /\ \A k \in Ranks : data[k] = <<3 * k, 3 * k + 1, 3 * k + 2>>

(* C4 *)

\* C4 (empty local input does not crash): when P >= 2 and a rank holds no
\* element, no rank fails an assertion, and no rank reads a sample from
\* outside its segment.
C4_NoCrashOnEmpty ==
    (numprocs >= 2 /\ \E k \in Ranks : Len(input[k]) = 0) =>
        \A k \in Ranks : pc[k] # "aborted" /\ ~oob[k]

(* C5 *)

\* C5 (single-participant base case): with numprocs <= 1 the rank calls no
\* collective and allocates no buffer, nothing is handed to a collective,
\* and when it has returned its segment is the input in sorted order.
C5_SingleRank ==
    numprocs <= 1 =>
        /\ net = NoNet
        /\ \A k \in Ranks :
               /\ issued[k] = <<>>
               /\ allocd[k] = <<>>
               /\ pc[k] \in {"start", "done"}
               /\ pc[k] = "done" =>
                      /\ IsSorted(data[k])
                      /\ SameElements(data[k], input[k])

\* a single rank has returned having reordered its segment
C5_Witness ==
    /\ numprocs = 1
    /\ pc[0] = "done"
    /\ data[0] # input[0]
    /\ Len(data[0]) >= 3

(* C6 *)

\* all elements of all ranks are equal, every rank holds one, P >= 2
DuplicateHeavy ==
    /\ numprocs >= 2
    /\ \A k \in Ranks : Len(input[k]) >= 1
    /\ \A q \in 1 .. Len(AllInput) : AllInput[q] = AllInput[1]

\* C6 (duplicate-heavy input): on an input of equal elements no rank aborts,
\* the splitters a rank gets are all equal, once all bucket sizes are known
\* some rank has an empty bucket, and a rank that has returned holds as many
\* elements as before, the segments being in order once all have returned.
C6_DuplicateHeavy ==
    DuplicateHeavy =>
        /\ \A k \in Ranks : pc[k] # "aborted"
        /\ \A k \in Ranks : Stage(k) >= 3 =>
               \A i \in 0 .. numprocs - 2 : sample[k][i] = sample[k][0]
        /\ (\A k \in Ranks : Stage(k) >= 4) =>
               \E k \in Ranks : bucket_size[k] = 0
        /\ \A k \in Ranks : pc[k] = "done" =>
               /\ Len(data[k]) = Len(input[k])
               /\ SumTo(recv_counts[k], numprocs) = Len(input[k])
               /\ \A q \in 1 .. Len(data[k]) : data[k][q] = AllInput[1]
        /\ AllDone => IsSorted(ConcatTo(data, numprocs))

\* every rank has returned from a call on equal elements in which a rank
\* got an empty bucket
C6_Witness ==
    /\ DuplicateHeavy
    /\ AllDone
    /\ \E k \in Ranks : bucket_size[k] = 0
    /\ \E k \in Ranks : Len(input[k]) >= 2

(* C7 *)

\* the input is sorted within each rank and across the ranks
GloballySorted == IsSorted(AllInput)

\* C7 (idempotence): on a globally sorted input, every rank that has
\* returned holds the sequence it held before the call.
C7_Idempotent ==
    GloballySorted =>
        \A k \in Ranks : pc[k] = "done" => data[k] = input[k]

\* every rank has returned from a call on a globally sorted input with
\* distinct values in which elements moved to another rank and back
C7_Witness ==
    /\ GloballySorted
    /\ AllDone
    /\ numprocs >= 2
    /\ \E q \in 1 .. Len(AllInput) : AllInput[q] # AllInput[1]
    /\ \E k \in Ranks : bucket_size[k] # Len(input[k])

(* C8: interval_overlap on its own *)

\* the end points tried: small ones in elements (of ranges with l <= r: the
\* wrapped difference of the others is beyond the numbers TLC has), and both
\* ends of the unsigned range in large units
Coords ==
    IF shift = 0 THEN 0 .. MaxCoord
    ELSE (0 .. MaxCoord) \cup
         (2 * IntMaxUnits + 1 - MaxCoord .. 2 * IntMaxUnits + 1)

InitOverlap ==
    /\ numprocs = 1
    /\ input = [k \in Ranks |-> <<>>]
    /\ InitRanks
    /\ shift \in {0, LargeUnit}
    /\ ndebug = FALSE
    /\ io \in [l1 : Coords, r1 : Coords, l2 : Coords, r2 : Coords,
               called : {FALSE}, result : {0}, swapped : {0}]
    /\ shift = 0 => (io.l1 <= io.r1 /\ io.l2 <= io.r2)

\* interval_overlap is called on the two ranges, in both orders
overlap_call ==
    /\ ~io.called
    /\ io' = [io EXCEPT !.called = TRUE,
                        !.result = interval_overlap(io.l1, io.r1, io.l2, io.r2),
                        !.swapped = interval_overlap(io.l2, io.r2, io.l1, io.r1)]
    /\ UNCHANGED <<ndebug, shift, numprocs, input, data, pc, sample, all_samples,
                   send_split_counts, recv_split_counts, bucket_size,
                   bucket_elems, all_sizes, send_counts, recv_counts, net,
                   issued, allocd, freed, oob>>

NextOverlap == overlap_call

SpecOverlap == InitOverlap /\ [][NextOverlap]_vars

\* C8 (interval overlap primitive): for ranges [l1, r1) and [l2, r2) with
\* l1 <= r1 and l2 <= r2, interval_overlap gives the same result for both
\* orders of the ranges, 0 when they share no point, and
\* min(r1, r2) - max(l1, l2) when they do.
C8_IntervalOverlap ==
    (io.called /\ io.l1 <= io.r1 /\ io.l2 <= io.r2) =>
        /\ io.result = io.swapped
        /\ io.result =
               IF Max(io.l1, io.l2) < Min(io.r1, io.r2)
               THEN Min(io.r1, io.r2) - Max(io.l1, io.l2)
               ELSE 0

\* called on two ranges that intersect, the one with the larger left bound
\* first, neither containing the other
C8_Witness ==
    /\ io.called
    /\ io.l2 < io.l1 /\ io.l1 < io.r2 /\ io.r2 < io.r1
    /\ io.result = io.r2 - io.l1
    /\ io.result > 0

(* C9: element counts beyond int *)

\* the size of each of the two segments: half of INT_MAX + 1, in large units
CapHalf == 2 ^ (CapBits - 2)

\* 2 ranks holding 2^30 elements each, as CapHalf runs of 2^shift equal
\* elements: 2^31 elements in all, one more than INT_MAX. (The sizes are
\* multiples of the number of ranks times the unit, so that the sampling
\* positions are whole units.)
CapacityInputs ==
    { SegmentsOf(2, [i \in 0 .. 1 |-> CapHalf], flat) :
      flat \in [1 .. 2 * CapHalf -> Vals] }

InitCap ==
    /\ numprocs = 2
    /\ input \in CapacityInputs
    /\ InitRanks
    /\ shift = LargeUnit
    /\ ndebug = FALSE
    /\ io = NoCall

SpecCap == InitCap /\ [][Next]_vars

\* the number of elements of all ranks, in units of 2^shift
TotalCount == SumTo([k \in Ranks |-> Len(input[k])], numprocs)

\* C9 (capacity overflow is checked before any collective): when the total
\* element count exceeds the largest int, no rank calls a collective.
C9_CapacityChecked ==
    TotalCount > IntMaxUnits => \A k \in Ranks : issued[k] = <<>>

(* C10 *)

\* the splitters rank k buckets with
splitters(k) == sample[k]

\* position q of rank k's sorted segment lies in the run sent to rank i
InRun(k, i, q) ==
    /\ SumTo(send_split_counts[k], i) < q
    /\ q <= SumTo(send_split_counts[k], i + 1)

\* e belongs to the range of rank i
InRange(e, spl, i) ==
    /\ i = 0 \/ ~comp(e, spl[i - 1])
    /\ i = numprocs - 1 \/ comp(e, spl[i])

\* the elements of s that belong to the range of rank i
RangeCount(s, spl, i) == Cardinality({q \in 1 .. Len(s) : InRange(s[q], spl, i)})

\* C10 (bucket range invariant): a rank that has split its sorted segment
\* sends to rank i the contiguous run of the elements e with
\* not(e < s[i-1]) and e < s[i] (no lower bound for rank 0, no upper bound
\* for the last rank), its send counts add up to the size of its segment,
\* and the buckets received are made of the elements of their rank's range,
\* every element of a lower rank's bucket being <= every element of a higher
\* rank's bucket.
C10_BucketRanges ==
    numprocs >= 2 =>
    /\ \A k \in Ranks : (Stage(k) >= 3 /\ Stage(k) <= 6) =>
           /\ SumTo(send_split_counts[k], numprocs) = Len(data[k])
           /\ \A i \in Ranks : send_split_counts[k][i] >= 0
           /\ \A i \in Ranks : \A q \in 1 .. Len(data[k]) :
                  InRun(k, i, q) <=> InRange(data[k][q], splitters(k), i)
           /\ Stage(k) >= 4 =>
                  \A i \in Ranks :
                      net.alltoallv_bucket[k][i] =
                          SubSeq(data[k], SumTo(send_split_counts[k], i) + 1,
                                 SumTo(send_split_counts[k], i + 1))
    /\ \A i \in Ranks : Stage(i) >= 5 =>
           /\ Len(bucket_elems[i]) = bucket_size[i]
           /\ bucket_size[i] = RangeCount(AllInput, splitters(i), i)
           /\ \A q \in 1 .. Len(bucket_elems[i]) :
                  /\ InRange(bucket_elems[i][q], splitters(i), i)
                  /\ Occurrences(bucket_elems[i], bucket_elems[i][q])
                         = Occurrences(AllInput, bucket_elems[i][q])
    /\ \A i, j \in Ranks : (i < j /\ Stage(i) >= 5 /\ Stage(j) >= 5) =>
           \A q \in 1 .. Len(bucket_elems[i]) : \A r \in 1 .. Len(bucket_elems[j]) :
               ~comp(bucket_elems[j][r], bucket_elems[i][q])

\* three or more ranks have their buckets, two of them non-empty, and a
\* rank holds an element equal to a splitter, which went to a later bucket
C10_Witness ==
    /\ numprocs >= 3
    /\ \A k \in Ranks : Stage(k) = 5
    /\ Cardinality({k \in Ranks : bucket_size[k] > 0}) >= 2
    /\ \E k \in Ranks : \E q \in 1 .. Len(data[k]) : \E i \in 0 .. numprocs - 2 :
           /\ data[k][q] = splitters(k)[i]
           /\ ~InRun(k, i, q)
           /\ InRun(k, i + 1, q)

(* C11 *)

\* the samples the ranks handed to MPI_Gather, in rank order
AllSamples ==
    ConcatTo([j \in Ranks |-> ArrSeq(net.gather[j], numprocs - 1)], numprocs)

\* C11 (splitter agreement): with P >= 2, a rank that has left get_splitters
\* holds P-1 splitters; splitter i is the element at position (i+1)*(P-1)
\* (from 1) of the sorted order of all ranks' samples, the array is
\* non-decreasing under the comparator, it is what rank 0 sent, and any two
\* ranks that have left get_splitters hold the same array.
C11_SplitterAgreement ==
    numprocs >= 2 =>
        \A k \in Ranks : Stage(k) >= 3 =>
            /\ DOMAIN net.gather = Ranks
            /\ DOMAIN splitters(k) = 0 .. numprocs - 2
            /\ \A i \in 0 .. numprocs - 2 :
                   splitters(k)[i] = SortedAt(AllSamples, (i + 1) * (numprocs - 1))
            /\ IsSorted(ArrSeq(splitters(k), numprocs - 1))
            /\ splitters(k) = net.bcast[0]
            /\ \A j \in Ranks : Stage(j) >= 3 => splitters(j) = splitters(k)

\* three or more ranks have left get_splitters with splitters that are not
\* all equal, one of them a rank whose own samples were different from them
C11_Witness ==
    /\ numprocs >= 3
    /\ \A k \in Ranks : Stage(k) >= 3
    /\ \E k \in Ranks : net.gather[k] # splitters(k)
    /\ splitters(0)[0] # splitters(0)[numprocs - 2]
    /\ \E q \in 1 .. Len(AllSamples) : AllSamples[q] < splitters(0)[0]

(* C12 *)

\* the collectives of a call with several ranks, in program order
Collectives ==
    <<"Gather", "Bcast", "Alltoall", "Alltoallv", "Allgather", "Alltoallv">>

IsPrefix(s, t) == Len(s) <= Len(t) /\ s = SubSeq(t, 1, Len(s))

\* the number of collectives rank k has entered
Entered(k) == Len(issued[k])

\* the number of collectives rank k has returned from: all it has entered
\* but the one it is in
Passed(k) ==
    IF pc[k] = "done" THEN Entered(k) ELSE Max(Entered(k) - 1, 0)

\* all ranks' samples are with rank 0, which has taken the splitters from them
SplittersComputed ==
    /\ DOMAIN net.gather = Ranks
    /\ 0 \in DOMAIN net.bcast
    /\ \A i \in 0 .. numprocs - 2 :
           net.bcast[0][i] = SortedAt(AllSamples, (i + 1) * (numprocs - 1))

\* rank j has received its whole bucket and sorted it
BucketSorted(j) ==
    /\ Len(bucket_elems[j]) = bucket_size[j]
    /\ \A q \in 1 .. Len(bucket_elems[j]) : bucket_elems[j][q] # Uninit
    /\ IsSorted(bucket_elems[j])

\* every rank issues a prefix of the same sequence of collectives
SameSequence == \A k \in Ranks : IsPrefix(issued[k], Collectives)

C13_CountsAgree ==
    \A k, i \in Ranks : (numprocs >= 2 /\ Stage(k) >= 6 /\ Stage(i) >= 6) =>
        /\ send_counts[k][i] = recv_counts[i][k]
        /\ send_counts[k][i] >= 0
        /\ Len(net.alltoallv_redist[k][i]) = recv_counts[i][k]

\* three or more ranks have computed their counts; a rank sends elements to
\* another rank, nothing to a third one, and keeps less than its bucket
C13_Witness ==
    /\ numprocs >= 3
    /\ \A k \in Ranks : Stage(k) >= 6
    /\ \E k, i, j \in Ranks :
           /\ k # i /\ k # j
           /\ send_counts[k][i] > 0
           /\ send_counts[k][j] = 0
           /\ recv_counts[j][k] = 0
           /\ send_counts[k][k] < bucket_size[k]

(* C14 *)

\* the blocks the ranks have handed to the last all-to-all-v for rank k,
\* in the order of the sending ranks
ReceivedInOrder(k) ==
    ConcatTo([i \in Ranks |-> BlockFor(net.alltoallv_redist, i, k)], numprocs)

\* C14 (redistribution counts fill the buffers exactly): for a rank k that
\* has computed its redistribution counts, the receive counts add up to the
\* size of its original segment and the send counts to the size of its
\* bucket, no count is negative, the displacements exclusive_sum gives for
\* them are the sums of the counts of the lower ranks, the block sent to
\* rank i is the part of the sorted bucket between the displacements of i
\* and i+1, and when k has returned its segment is the received blocks in
\* the order of the sending ranks, with the size it had before the call.
C14_ExactFill ==
    numprocs >= 2 =>
        \A k \in Ranks : Stage(k) >= 6 =>
            /\ SumTo(recv_counts[k], numprocs) = Len(input[k])
            /\ SumTo(send_counts[k], numprocs) = bucket_size[k]
            /\ \A i \in Ranks :
                   /\ send_counts[k][i] >= 0
                   /\ recv_counts[k][i] >= 0
                   /\ exclusive_sum(send_counts[k], numprocs)[i]
                          = SumTo(send_counts[k], i)
                   /\ exclusive_sum(recv_counts[k], numprocs)[i]
                          = SumTo(recv_counts[k], i)
                   /\ net.alltoallv_redist[k][i] =
                          SubSeq(bucket_elems[k], SumTo(send_counts[k], i) + 1,
                                 SumTo(send_counts[k], i + 1))
            /\ pc[k] = "done" =>
                   /\ Len(data[k]) = Len(input[k])
                   /\ data[k] = ReceivedInOrder(k)
                   /\ \A q \in 1 .. Len(data[k]) : data[k][q] # Uninit

\* a rank has returned whose segment is made of blocks of two or more
\* ranks, none of them its own, so that a block was written at a
\* displacement other than 0
C14_Witness ==
    /\ numprocs >= 3
    /\ \E k, i, j \in Ranks :
           /\ pc[k] = "done"
           /\ i < j /\ i # k /\ j # k
           /\ recv_counts[k][i] > 0
           /\ recv_counts[k][j] > 0
           /\ recv_counts[k][k] = 0
           /\ exclusive_sum(recv_counts[k], numprocs)[j] > 0

(* C15 *)

\* the number of elements the ranks hold in their segments
SegmentCount == SumTo([k \in Ranks |-> Len(data[k])], numprocs)

\* the number of elements the ranks hold in their buckets
BucketCount == SumTo([k \in Ranks |-> Len(bucket_elems[k])], numprocs)

\* C15 (global count invariant): while no rank has left get_splitters the
\* sizes of the segments add up to N, the number of elements before the
\* call; once every rank has its bucket, the bucket sizes add up to N, as
\* do the numbers of elements in the buckets; once every rank has returned,
\* the sizes of the segments add up to N.
C15_GlobalCount ==
    /\ (\A k \in Ranks : Stage(k) >= 0 /\ Stage(k) <= 2) =>
           SegmentCount = TotalCount
    /\ (numprocs >= 2 /\ \A k \in Ranks : Stage(k) >= 5) =>
           /\ SumTo(bucket_size, numprocs) = TotalCount
           /\ BucketCount = TotalCount
    /\ AllDone => SegmentCount = TotalCount

\* every rank has returned from a call of three or more ranks in which the
\* bucket of every rank had another size than its segment
C15_Witness ==
    /\ numprocs >= 3
    /\ AllDone
    /\ TotalCount >= 3
    /\ \A k \in Ranks : bucket_size[k] # Len(input[k])

(* C16 *)

\* the index (from 0) of the i-th sample in a segment of size elements:
\* i+1 steps of size div P, and one more for each of the first size mod P
SampleIndex(size, i) ==
    (i + 1) * (size \div numprocs) + Min(i + 1, size % numprocs) - 1

\* C16 (sampling assertions hold): with P >= 2 and an element on every
\* rank, no rank aborts and no rank reads outside its segment; a rank that
\* has taken its samples has read, for each i < P-1, the index
\* SampleIndex(size, i), which is in [0, size), and once rank 0 has taken
\* the splitters it has read, for each i < P-1, index (i+1)*(P-1) - 1 of the
\* sorted samples, which is in [0, P*(P-1)).
C16_SamplingInRange ==
    (numprocs >= 2 /\ \A k \in Ranks : Len(input[k]) >= 1) =>
        /\ \A k \in Ranks :
               /\ pc[k] # "aborted"
               /\ ~oob[k]
               /\ Stage(k) >= 1 =>
                      \A i \in 0 .. numprocs - 2 :
                          /\ 0 <= SampleIndex(Len(input[k]), i)
                          /\ SampleIndex(Len(input[k]), i) < Len(input[k])
                          /\ s_pos(Len(input[k]), numprocs - 1, i) - 1
                                 = SampleIndex(Len(input[k]), i)
                          /\ net.gather[k][i]
                                 = SortedAt(input[k], SampleIndex(Len(input[k]), i) + 1)
        /\ Stage(0) >= 2 =>
               \A i \in 0 .. numprocs - 2 :
                   /\ 0 <= as_pos(numprocs - 1, i) - 1
                   /\ as_pos(numprocs - 1, i) - 1 < numprocs * (numprocs - 1)
                   /\ net.bcast[0][i] = all_samples[0][(i + 1) * (numprocs - 1) - 1]

\* rank 0 has taken the splitters in a call of three or more ranks in which
\* a rank holds fewer than P-1 elements and a rank holds P-1 elements or
\* more, a number that P does not divide
C16_Witness ==
    /\ numprocs >= 3
    /\ \A k \in Ranks : Len(input[k]) >= 1
    /\ \E k \in Ranks : Len(input[k]) < numprocs - 1
    /\ \E k \in Ranks : Len(input[k]) >= numprocs - 1 /\ Len(input[k]) % numprocs # 0
    /\ Stage(0) >= 2

(* C17: the call under fair scheduling *)

\* the distributions of at most MaxN values over P ranks that leave no rank
\* without an element, holding equal values, values going up and values
\* going down (modulo MaxVal + 1)
FairInputs(P) ==
    UNION { { SegmentsOf(P, sz, [j \in 1 .. SumTo(sz, P) |-> (a * j) % (MaxVal + 1)]) :
              a \in 0 .. MaxVal } :
            sz \in {f \in [0 .. P - 1 -> 1 .. MaxN] : SumTo(f, P) <= MaxN} }

\* samplesort is called on every rank, every rank holding an element
InitFair ==
    /\ \/ /\ numprocs \in 1 .. MaxP
          /\ input \in FairInputs(numprocs)
       \/ /\ numprocs = 3
          /\ input \in UnevenInputs
    /\ \A k \in Ranks : Len(input[k]) >= 1
    /\ InitRanks
    /\ shift = 0
    /\ ndebug = FALSE
    /\ io = NoCall

\* every rank is a process of its own (mpirun starts one per rank) that
\* runs whenever it is not blocked in a collective: while some rank can go
\* on, a step is taken
Fairness == WF_vars(Next)

SpecFair == InitFair /\ [][Next]_vars /\ Fairness

\* rank k holds its slice of the sorted input
FinalSlice(k) ==
    /\ Len(data[k]) = Len(input[k])
    /\ \A q \in 1 .. Len(data[k]) :
           data[k][q] = SortedAt(AllInput, OrigOffset(k) + q)

\* C17 (termination without deadlock): when every rank holds an element
\* (P >= 1), under fair scheduling every rank eventually returns from
\* samplesort, and when all have returned every rank holds its final slice.
C17_Terminates ==
    (\A k \in Ranks : Len(input[k]) >= 1) =>
        <>(AllDone /\ \A k \in Ranks : FinalSlice(k))

\* every rank has returned from a call of three or more ranks, each having
\* gone through the six collectives, after which no rank holds the
\* elements it held before
C17_Witness ==
    /\ numprocs >= 3
    /\ \A k \in Ranks : Len(input[k]) >= 1
    /\ AllDone
    /\ \A k \in Ranks : Entered(k) = 6 /\ FinalSlice(k)
    /\ \A k \in Ranks : ~SameElements(data[k], input[k])

(* C18 *)

\* how often buffer b occurs in the history h
Times(h, b) == Cardinality({q \in 1 .. Len(h) : h[q] = b})

\* the buffers of rank k that are allocated and not released
Live(k) == {b \in Buffers : Times(allocd[k], b) > Times(freed[k], b)}

\* what a rank of a call with several ranks allocates: each array once, the
\* two displacement arrays once in get_buckets and once in redistribute,
\* the array of all samples on rank 0 only
AllocatedByCall(k, b) ==
    IF b \in {"send_displacements", "recv_displacements"} THEN 2
    ELSE IF b = "all_samples" /\ k # 0 THEN 0
    ELSE 1

\* C18 (transient buffers are released exactly once): on every rank no
\* buffer is released more often than it was allocated, nor allocated again
\* while it is live; the buffers the code reads or writes where the rank
\* is are live; the bucket buffer is released only when the rank has left
\* redistribute with the received blocks in its segment; and a rank that
\* has returned has allocated each buffer of the call (with P <= 1: none)
\* and released each as often as it allocated it.
C18_ReleasedOnce ==
    \A k \in Ranks :
        /\ \A b \in Buffers :
               /\ Times(freed[k], b) <= Times(allocd[k], b)
               /\ Times(allocd[k], b) <= Times(freed[k], b) + 1
        /\ \A q \in 1 .. Len(allocd[k]) : allocd[k][q] \in Buffers
        /\ \A q \in 1 .. Len(freed[k]) : freed[k][q] \in Buffers
        /\ InUse(k) \subseteq Live(k)
        /\ Times(freed[k], "bucket_elems") > 0 =>
               /\ pc[k] = "done"
               /\ data[k] = ReceivedInOrder(k)
        /\ pc[k] = "done" =>
               /\ Live(k) = {}
               /\ \A b \in Buffers :
                      Times(allocd[k], b) =
                          IF numprocs <= 1 THEN 0 ELSE AllocatedByCall(k, b)

\* rank 0 and another rank have returned from a call with several ranks,
\* each having released its bucket, and a third rank still holds its own
C18_Witness ==
    /\ numprocs >= 3
    /\ \E k, j \in Ranks :
           /\ k # 0
           /\ pc[0] = "done" /\ pc[k] = "done"
           /\ Times(freed[0], "all_samples") = 1
           /\ Times(freed[k], "bucket_elems") = 1
           /\ Times(freed[k], "send_displacements") = 2
           /\ "bucket_elems" \in Live(j)

====
